---- MODULE Spec2Model ----
(***************************************************************************)
(* Sprint planning MILP of solver/solve_sprint.py as a state machine.      *)
(*                                                                         *)
(* The script is one straight run: load the records, derive the required   *)
(* hours and the effective role capacities, build the constraint set,      *)
(* hand it to the solver, and extract the selection, assignment and        *)
(* utilization views and the summary.  Each section of the script is one   *)
(* action; a Python exception ends the run in pc = "crashed".              *)
(*                                                                         *)
(* Numbers: the script works on floats; the model draws every numeric      *)
(* input from the integers (1.0, 2.0, ... are legal float inputs), so all  *)
(* products and sums are exact.  Hours the solver may hand out are the     *)
(* integers 0..MaxCap; the per-person capacity constraint keeps hours      *)
(* below the person's capacity in any case.                                *)
(***************************************************************************)
EXTENDS Integers, Sequences, FiniteSets, TLC

\* ---------------------------------------------------------------- bounds
MaxCap == 2
MaxPoints == 2
MaxBugs == 1

\* ------------------------------------------------------- fixed by the code
\* the role tuple of the coverage and capacity loops
FiveRoles == {"BE", "FE", "QA", "TL", "ARQ"}
\* the roles whose people are developers
DevRoles == {"BE", "FE"}
\* the roles that get the meeting load
MeetingRoles == {"QA", "TL"}

\* ---------------------------------------------------------------- helpers
\* Python's None for a solver variable without a value (values are >= 0)
None == 0 - 1

\* dict.get(k, d)
Get(f, k, d) == IF k \in DOMAIN f THEN f[k] ELSE d

Min(a, b) == IF a <= b THEN a ELSE b

RECURSIVE SumSet(_, _)
\* sum(f[d] for d in D)
SumSet(f, D) ==
    IF D = {} THEN 0
    ELSE LET d == CHOOSE e \in D : TRUE
         IN  f[d] + SumSet(f, D \ {d})

Bin == {0, 1}
Hours == 0..MaxCap

\* ------------------------------------------------------------------ state
VARIABLES
    pc,            \* the section of the script to run next
    err,           \* the exception that ended the run, "" if none
    people_rows,   \* people.csv : person -> [role, capacity_hours]
    story_rows,    \* stories.csv: story_id -> [points, value, depends_on]
    role_rows,     \* roles.csv  : role -> [share_of_hours, meeting_load_per_story_hours, bug_hours_per_bug]
    CFG,           \* config.yaml
    I_by_role,     \* defaultdict(list): role -> people of the role
    req,           \* (story, role) -> required hours
    role_cap_eff,  \* role -> effective capacity
    m,             \* the constraints added to the LpProblem
    status,        \* pl.LpStatus[m.status]
    sol,           \* the values of the solver variables x, z, y, owner, rel
    obj,           \* pl.value(m.objective): <<>> for None, <<v>> for v
    sel,           \* rows of selected_stories.csv
    assign_rows,   \* rows of assignments.csv
    util,          \* rows of person_utilization.csv
    summary,       \* lines of summary.txt
    out            \* the output files written so far

vars == <<pc, err, people_rows, story_rows, role_rows, CFG, I_by_role, req,
          role_cap_eff, m, status, sol, obj, sel, assign_rows, util, summary, out>>

inputs == <<people_rows, story_rows, role_rows, CFG>>

\* --------------------------------------------------- the loaded data (48-72)
\* the people of people.csv, in file order
PeopleList == <<"p1", "p2">>
I == DOMAIN people_rows
role_of == [i \in I |-> people_rows[i].role]
cap_i == [i \in I |-> people_rows[i].capacity_hours]

S_all == DOMAIN story_rows
S == {s \in S_all : story_rows[s].points \notin CFG.forbid_points}
points == [s \in S |-> story_rows[s].points]
value == [s \in S |-> story_rows[s].value]

\* (sid, dep) for every eligible story with a non-blank depends_on
deps == {<<s, story_rows[s].depends_on>> : s \in {t \in S : story_rows[t].depends_on # ""}}

R == DOMAIN role_rows
role_share == [r \in R |-> role_rows[r].share_of_hours]
mtg_per_story == [r \in R |-> role_rows[r].meeting_load_per_story_hours]
bug_hours_per_bug == [r \in R |-> role_rows[r].bug_hours_per_bug]

\* I_by_role as the loop of lines 51-53 leaves it: a key per role that has people
LoadedIByRole(rows) ==
    [r \in {rows[i].role : i \in DOMAIN rows} |-> {i \in DOMAIN rows : rows[i].role = r}]

devs == {i \in I : role_of[i] \in DevRoles}

\* ------------------------------------------ requirement calculator (74-94)
hrs_tot == [s \in S |-> points[s] * CFG.hours_per_point]

\* lines 76-80: share * total hours, QA times the coverage factor
ReqBase(s, r) ==
    IF r = "QA"
    THEN Get(role_share, "QA", 0) * hrs_tot[s] * CFG.qa_coverage_factor
    ELSE Get(role_share, r, 0) * hrs_tot[s]

\* lines 83-87: the meeting load, added for QA and TL when it is positive
ReqExtra(r) ==
    IF r \in MeetingRoles /\ Get(mtg_per_story, r, 0) > 0
    THEN Get(mtg_per_story, r, 0)
    ELSE 0

ComputedReq == [k \in S \X FiveRoles |-> ReqBase(k[1], k[2]) + ReqExtra(k[2])]

\* line 90 reads I_by_role[r] for every r in R: the defaultdict gains an
\* empty list for every listed role that has no people
IByRoleAfterRoleCap == [r \in (DOMAIN I_by_role) \cup R |-> Get(I_by_role, r, {})]

role_cap == [r \in R |-> SumSet(cap_i, Get(I_by_role, r, {}))]
role_bug_reserve == [r \in R |-> CFG.bugs_per_sprint * Get(bug_hours_per_bug, r, 0)]

\* the reservation forgotten: the raw capacity, QA clamped by the WIP factor
RoleCapEffWithoutReserve ==
    [r \in R \cup {"QA"} |->
        IF r = "QA"
        THEN Min(Get(role_cap, "QA", 0), Get(role_cap, "QA", 0) * CFG.wip_factor_QA_capacity)
        ELSE role_cap[r]]

\* lines 92-94: capacity minus the bug reservation, QA clamped by the WIP factor
ComputedRoleCapEff ==
    LET base == [r \in R |-> Get(role_cap, r, 0) - Get(role_bug_reserve, r, 0)]
    IN  [r \in R \cup {"QA"} |->
            IF r = "QA"
            THEN Min(Get(base, "QA", 0), Get(role_cap, "QA", 0) * CFG.wip_factor_QA_capacity)
            ELSE base[r]]

\* ------------------------------------------------- model builder (96-145)
\* A constraint of the LpProblem is <<kind, a, b>>, named as the script names
\* it: Cap_i, Req_r_s, RoleCap_r, OwnerOne_s, OwnerHours_i_s, PointsCap_i,
\* RelLink_i, RelActive_i, Dep_s_on_p.

\* the roles of the coverage and capacity loops that pass "r in I_by_role"
RolesWithConstraints == FiveRoles \cap DOMAIN I_by_role

\* line 122 reads role_cap_eff[r]: a KeyError for a role with a key in
\* I_by_role that roles.csv does not list (QA always has a key, line 94)
BuildRaisesKeyError == \E r \in RolesWithConstraints : r \notin DOMAIN role_cap_eff

EnforcedDeps == {d \in deps : d[2] \in S}

BuiltConstraints ==
    {<<"Cap", i, "">> : i \in I}
    \cup {<<"Req", r, s>> : r \in RolesWithConstraints, s \in S}
    \cup {<<"RoleCap", r, "">> : r \in RolesWithConstraints}
    \cup {<<"OwnerOne", s, "">> : s \in S}
    \cup {<<"OwnerHours", i, s>> : i \in devs, s \in S}
    \cup {<<"PointsCap", i, "">> : i \in devs}
    \cup {<<"RelLink", i, "">> : i \in devs}
    \cup {<<"RelActive", i, "">> : i \in devs}
    \cup {<<"Dep", d[1], d[2]>> : d \in EnforcedDeps}

\* An assignment a gives x[(i,s)], z[s], y[i], owner[(i,s)] and rel[i].
\* owner is declared for every person (line 103) but only the developers'
\* variables enter a constraint or are read back, so a.owner holds those.

\* the capacity constraint without the gate by the active flag
CapConstraintUngated(i, a) ==
    SumSet([s \in S |-> a.x[<<i, s>>]], S) <= cap_i[i]

\* line 111
CapConstraint(i, a) ==
    SumSet([s \in S |-> a.x[<<i, s>>]], S) <= cap_i[i] * a.y[i]

\* line 117
ReqConstraint(r, s, a) ==
    SumSet([i \in I_by_role[r] |-> a.x[<<i, s>>]], I_by_role[r]) >= req[<<s, r>>] * a.z[s]

\* line 122
RoleCapConstraint(r, a) ==
    SumSet([k \in I_by_role[r] \X S |-> a.x[k]], I_by_role[r] \X S) <= role_cap_eff[r]

\* at most one owner instead of exactly one
OwnerAtMostOneConstraint(s, a) ==
    SumSet([i \in devs |-> a.owner[<<i, s>>]], devs) <= a.z[s]

\* line 127
OwnerOneConstraint(s, a) ==
    SumSet([i \in devs |-> a.owner[<<i, s>>]], devs) = a.z[s]

\* line 130
OwnerHoursConstraint(i, s, a) ==
    a.x[<<i, s>>] >= CFG.min_hours_to_count_release * a.owner[<<i, s>>]

\* line 134
PointsCapConstraint(i, a) ==
    SumSet([s \in S |-> points[s] * a.owner[<<i, s>>]], S) <= CFG.max_points_per_dev

\* line 139
RelLinkConstraint(i, a) ==
    a.rel[i] <= SumSet([s \in S |-> a.owner[<<i, s>>]], S)

\* line 140
RelActiveConstraint(i, a) == a.rel[i] >= a.y[i]

\* the precedence the wrong way round
DepConstraintReversed(s, p, a) == a.z[p] <= a.z[s]

\* line 145
DepConstraint(s, p, a) == a.z[s] <= a.z[p]

Holds(c, a) ==
    CASE c[1] = "Cap" -> CapConstraint(c[2], a)
      [] c[1] = "Req" -> ReqConstraint(c[2], c[3], a)
      [] c[1] = "RoleCap" -> RoleCapConstraint(c[2], a)
      [] c[1] = "OwnerOne" -> OwnerOneConstraint(c[2], a)
      [] c[1] = "OwnerHours" -> OwnerHoursConstraint(c[2], c[3], a)
      [] c[1] = "PointsCap" -> PointsCapConstraint(c[2], a)
      [] c[1] = "RelLink" -> RelLinkConstraint(c[2], a)
      [] c[1] = "RelActive" -> RelActiveConstraint(c[2], a)
      [] c[1] = "Dep" -> DepConstraint(c[2], c[3], a)

Satisfies(a) == \A c \in m : Holds(c, a)

\* line 107
Objective(a) ==
    SumSet([s \in S |-> value[s] * a.z[s]], S)
        - CFG.lambda_people_penalty * SumSet(a.y, I)

\* ------------------------------------------------ solver adapter (147-152)
\* The solver is a black box.  It answers "Optimal" with an assignment that
\* satisfies every constraint and maximises the objective, "Infeasible" when
\* no assignment satisfies the constraints, or gives up ("Not Solved",
\* "Undefined").  The objective is bounded, so "Unbounded" is never answered.
\* Without a solution the variables keep no value (None) or, as read back
\* from an infeasible run, all hold 0.

\* the hours of one person over the stories that satisfy the person's Cap_
\* constraint under the active flag yi
PersonRows(i, yi) ==
    LET cs == {c \in m : c[1] = "Cap" /\ c[2] = i}
    IN  {row \in [S -> Hours] :
            \A c \in cs : Holds(c, [x |-> [k \in {i} \X S |-> row[k[2]]],
                                    y |-> [j \in {i} |-> yi]])}

\* the values of x and y that satisfy the Cap_ constraints
StageXY ==
    UNION {LET rows == [i \in I |-> PersonRows(i, yy[i])]
           IN  {[x |-> [k \in I \X S |-> f[k[1]][k[2]]], y |-> yy] :
                   f \in {g \in [I -> [S -> Hours]] : \A i \in I : g[i] \in rows[i]}}
           : yy \in [I -> Bin]}

\* the assignments over x, y, z that satisfy the constraints on them
StageXYZ ==
    LET cs == {c \in m : c[1] \in {"Req", "RoleCap", "Dep"}}
    IN  UNION {{b \in {[x |-> a.x, y |-> a.y, z |-> zz] : zz \in [S -> Bin]} :
                    \A c \in cs : Holds(c, b)} : a \in StageXY}

\* ... extended by the developers' owner variables
StageOwner ==
    LET cs == {c \in m : c[1] \in {"OwnerOne", "OwnerHours", "PointsCap"}}
    IN  UNION {{b \in {[x |-> a.x, z |-> a.z, y |-> a.y, owner |-> o] :
                        o \in [devs \X S -> Bin]} :
                    \A c \in cs : Holds(c, b)} : a \in StageXYZ}

\* ... extended by rel: every assignment that satisfies the constraint set
FeasibleAssignments ==
    LET cs == {c \in m : c[1] \in {"RelLink", "RelActive"}}
    IN  UNION {{b \in {[x |-> a.x, z |-> a.z, y |-> a.y, owner |-> a.owner, rel |-> e] :
                        e \in [I -> Bin]} :
                    \A c \in cs : Holds(c, b)} : a \in StageOwner}

OptimalAssignments ==
    LET F == FeasibleAssignments
        vals == {Objective(a) : a \in F}
        best == CHOOSE v \in vals : \A w \in vals : w <= v
    IN  IF F = {} THEN {} ELSE {a \in F : Objective(a) = best}

AllNone ==
    [x |-> [k \in I \X S |-> None], z |-> [s \in S |-> None], y |-> [i \in I |-> None],
     owner |-> [k \in devs \X S |-> None], rel |-> [i \in I |-> None]]

AllZero ==
    [x |-> [k \in I \X S |-> 0], z |-> [s \in S |-> 0], y |-> [i \in I |-> 0],
     owner |-> [k \in devs \X S |-> 0], rel |-> [i \in I |-> 0]]

GaveUpStatuses == {"Not Solved", "Undefined"}

SolveOutcomes ==
    LET opt == OptimalAssignments
    IN  {[status |-> "Optimal", sol |-> a, obj |-> <<Objective(a)>>] : a \in opt}
        \cup (IF opt = {}
              THEN {[status |-> "Infeasible", sol |-> AllNone, obj |-> <<>>],
                    [status |-> "Infeasible", sol |-> AllZero, obj |-> <<Objective(AllZero)>>]}
              ELSE {})
        \cup {[status |-> st, sol |-> AllNone, obj |-> <<>>] : st \in GaveUpStatuses}

\* ----------------------------------------------- result extractor (154-213)
\* position of a person in file order
Pos(i) == CHOOSE k \in 1..Len(PeopleList) : PeopleList[k] = i

\* lines 160-164: the first developer whose owner variable exceeds 0.5
FirstOwners(s) ==
    {i \in devs : sol.owner[<<i, s>>] >= 1
                  /\ \A j \in devs : sol.owner[<<j, s>>] >= 1 => Pos(i) <= Pos(j)}

owner_i(s) == IF FirstOwners(s) = {} THEN "None" ELSE CHOOSE i \in FirstOwners(s) : TRUE

\* the developers whose owner variable the scan of lines 161-164 compares
Scanned(s) ==
    {i \in devs : \A j \in devs : (sol.owner[<<j, s>>] # None /\ sol.owner[<<j, s>>] >= 1) => Pos(i) <= Pos(j)}

\* lines 158 and 162 compare a value with 0.5: a TypeError when it is None
SelectedRaises ==
    \E s \in S : \/ sol.z[s] = None
                 \/ /\ sol.z[s] >= 1
                    /\ \E i \in Scanned(s) : sol.owner[<<i, s>>] = None

SelectedRows == {<<s, points[s], value[s], owner_i(s)>> : s \in {t \in S : sol.z[t] >= 1}}

\* line 177: "if hrs and hrs > 1e-4" skips None and 0; round(hrs, 2)
AssignmentRows ==
    {<<k[1], role_of[k[1]], k[2], sol.x[k]>> :
        k \in {q \in I \X S : sol.x[q] # None /\ sol.x[q] >= 1}}

\* line 187: sum() over the person's hours
used(i) == SumSet([s \in S |-> sol.x[<<i, s>>]], S)

\* round(used / capacity, 3), in thousandths
Utilization(i) == (2 * 1000 * used(i) + cap_i[i]) \div (2 * cap_i[i])

\* lines 187-188 for one person: the exception raised, "" if none
UtilError(i) ==
    IF \E s \in S : sol.x[<<i, s>>] = None THEN "TypeError"
    ELSE IF cap_i[i] = 0 THEN "ZeroDivisionError"
    ELSE IF sol.y[i] = None \/ sol.rel[i] = None THEN "TypeError"
    ELSE ""

\* the exception of the first person (in file order) whose row raises
UtilRaises ==
    LET bad == {i \in I : UtilError(i) # ""}
    IN  IF bad = {} THEN ""
        ELSE UtilError(CHOOSE i \in bad : \A j \in bad : Pos(i) <= Pos(j))

UtilRow(i) ==
    <<i, role_of[i], used(i), cap_i[i], Utilization(i),
      IF sol.y[i] >= 1 THEN 1 ELSE 0, IF sol.rel[i] >= 1 THEN 1 ELSE 0>>

UtilRows == {UtilRow(i) : i \in I}

\* line 197 formats obj, lines 198-199 compare z and y with 0.5
SummaryRaises ==
    \/ obj = <<>>
    \/ \E s \in S : sol.z[s] = None
    \/ \E i \in I : sol.y[i] = None

SummaryLines ==
    [Status |-> status,
     Objective |-> obj[1],
     DeliveredValue |-> SumSet(value, {s \in S : sol.z[s] >= 1}),
     ActivePeople |-> Cardinality({i \in I : sol.y[i] >= 1}),
     StoriesSelected |-> <<Cardinality(sel), Cardinality(S)>>,
     Dependencies |-> Cardinality(deps),
     Parameters |-> [hours_per_point |-> CFG.hours_per_point,
                     lambda_people_penalty |-> CFG.lambda_people_penalty,
                     bugs_per_sprint |-> CFG.bugs_per_sprint,
                     max_points_per_dev |-> CFG.max_points_per_dev,
                     qa_coverage_factor |-> CFG.qa_coverage_factor,
                     wip_factor_QA_capacity |-> CFG.wip_factor_QA_capacity]]

\* ---------------------------------------------------------------- actions
Crash(e) == pc' = "crashed" /\ err' = e

\* lines 74-87
ComputeReq ==
    /\ pc = "req"
    /\ req' = ComputedReq
    /\ pc' = "cap"
    /\ UNCHANGED <<err, inputs, I_by_role, role_cap_eff, m, status, sol, obj,
                   sel, assign_rows, util, summary, out>>

\* lines 89-94
ComputeRoleCap ==
    /\ pc = "cap"
    /\ I_by_role' = IByRoleAfterRoleCap
    /\ role_cap_eff' = ComputedRoleCapEff
    /\ pc' = "build"
    /\ UNCHANGED <<err, inputs, req, m, status, sol, obj,
                   sel, assign_rows, util, summary, out>>

\* lines 96-145
BuildModel ==
    /\ pc = "build"
    /\ IF BuildRaisesKeyError
       THEN Crash("KeyError") /\ m' = m
       ELSE m' = BuiltConstraints /\ pc' = "solve" /\ err' = err
    /\ UNCHANGED <<inputs, I_by_role, req, role_cap_eff, status, sol, obj,
                   sel, assign_rows, util, summary, out>>

\* lines 147-152
Solve ==
    /\ pc = "solve"
    /\ \E o \in SolveOutcomes :
          /\ status' = o.status
          /\ sol' = o.sol
          /\ obj' = o.obj
    /\ pc' = "selected"
    /\ UNCHANGED <<err, inputs, I_by_role, req, role_cap_eff, m,
                   sel, assign_rows, util, summary, out>>

\* lines 155-170
ExtractSelected ==
    /\ pc = "selected"
    /\ IF SelectedRaises
       THEN Crash("TypeError") /\ UNCHANGED <<sel, out>>
       ELSE /\ sel' = SelectedRows
            /\ out' = out \cup {"selected_stories.csv"}
            /\ pc' = "assign"
            /\ err' = err
    /\ UNCHANGED <<inputs, I_by_role, req, role_cap_eff, m, status, sol, obj,
                   assign_rows, util, summary>>

\* lines 172-182
ExtractAssignments ==
    /\ pc = "assign"
    /\ assign_rows' = AssignmentRows
    /\ out' = out \cup {"assignments.csv"}
    /\ pc' = "util"
    /\ UNCHANGED <<err, inputs, I_by_role, req, role_cap_eff, m, status, sol, obj,
                   sel, util, summary>>

\* lines 184-192
ExtractUtilization ==
    /\ pc = "util"
    /\ IF UtilRaises # ""
       THEN Crash(UtilRaises) /\ UNCHANGED <<util, out>>
       ELSE /\ util' = UtilRows
            /\ out' = out \cup {"person_utilization.csv"}
            /\ pc' = "summary"
            /\ err' = err
    /\ UNCHANGED <<inputs, I_by_role, req, role_cap_eff, m, status, sol, obj,
                   sel, assign_rows, summary>>

\* lines 194-213: the file is opened and the status line written before
\* anything else is formatted
WriteSummary ==
    /\ pc = "summary"
    /\ out' = out \cup {"summary.txt"}
    /\ IF SummaryRaises
       THEN Crash("TypeError") /\ summary' = [Status |-> status]
       ELSE summary' = SummaryLines /\ pc' = "done" /\ err' = err
    /\ UNCHANGED <<inputs, I_by_role, req, role_cap_eff, m, status, sol, obj,
                   sel, assign_rows, util>>

Next ==
    \/ ComputeReq
    \/ ComputeRoleCap
    \/ BuildModel
    \/ Solve
    \/ ExtractSelected
    \/ ExtractAssignments
    \/ ExtractUtilization
    \/ WriteSummary

\* ----------------------------------------------------------------- inputs
\* The input files a run may load.  One family varies the roster, the role
\* table and the bug load; one the configuration; one the backlog.  What a
\* family does not vary takes the values of a plain two-story sprint.

People == {PeopleList[k] : k \in 1..Len(PeopleList)}
Stories == {"S1", "S2"}
AllRoles == FiveRoles \cup {"PM"}

\* roles.csv rows by role
RoleCatalog ==
    [BE  |-> [share_of_hours |-> 1, meeting_load_per_story_hours |-> 0, bug_hours_per_bug |-> 1],
     FE  |-> [share_of_hours |-> 1, meeting_load_per_story_hours |-> 0, bug_hours_per_bug |-> 0],
     QA  |-> [share_of_hours |-> 1, meeting_load_per_story_hours |-> 0, bug_hours_per_bug |-> 1],
     TL  |-> [share_of_hours |-> 0, meeting_load_per_story_hours |-> 1, bug_hours_per_bug |-> 0],
     ARQ |-> [share_of_hours |-> 0, meeting_load_per_story_hours |-> 0, bug_hours_per_bug |-> 1],
     PM  |-> [share_of_hours |-> 1, meeting_load_per_story_hours |-> 1, bug_hours_per_bug |-> 1]]

\* the roles roles.csv lists
RoleTables == {AllRoles, {"BE", "PM"}, {"BE", "QA", "ARQ", "PM"}, {"FE", "TL", "PM"}}

RoleRows(T) == [r \in T |-> RoleCatalog[r]]

\* the role a person may have
PersonRoles == [p1 |-> {"BE", "FE", "PM"}, p2 |-> {"BE", "QA", "TL"}]

Rosters ==
    {[i \in People |-> [role |-> ro[i], capacity_hours |-> ca[i]]] :
        ro \in {f \in [People -> AllRoles] : \A i \in People : f[i] \in PersonRoles[i]},
        ca \in [People -> 0..MaxCap]}

PlainRosters ==
    {[p1 |-> [role |-> "BE", capacity_hours |-> MaxCap],
      p2 |-> [role |-> r, capacity_hours |-> MaxCap]] : r \in {"BE", "QA"}}

StoryValues == {[S1 |-> 0, S2 |-> 0], [S1 |-> 1, S2 |-> 2]}

\* S2 may depend on S1
Backlogs ==
    {[s \in Stories |-> [points |-> pt[s], value |-> va[s],
                         depends_on |-> IF s = "S2" THEN d ELSE ""]] :
        pt \in [Stories -> 1..MaxPoints], va \in StoryValues, d \in {"", "S1"}}

PlainBacklog ==
    [s \in Stories |-> [points |-> 1, value |-> 0, depends_on |-> ""]]

\* the rosters of the backlog family: the plain ones, and one whose only
\* backend developer has no capacity
BacklogRosters ==
    PlainRosters
    \cup {[p1 |-> [role |-> "BE", capacity_hours |-> 0],
           p2 |-> [role |-> "QA", capacity_hours |-> MaxCap]]}

PlainCFG ==
    [hours_per_point |-> 1, bugs_per_sprint |-> 0, max_points_per_dev |-> 2,
     lambda_people_penalty |-> 0, require_release_for_roles |-> {"BE", "FE"},
     min_hours_to_count_release |-> 1, qa_coverage_factor |-> 1,
     wip_factor_QA_capacity |-> 1, forbid_points |-> {}]

RosterInputs ==
    {[people_rows |-> p, story_rows |-> PlainBacklog, role_rows |-> RoleRows(T),
      CFG |-> [PlainCFG EXCEPT !.bugs_per_sprint = b]] :
        p \in Rosters, T \in RoleTables, b \in 0..MaxBugs}

ConfigInputs ==
    {[people_rows |-> p, story_rows |-> PlainBacklog,
      role_rows |-> RoleRows({"BE", "QA", "ARQ", "PM"}),
      CFG |-> [PlainCFG EXCEPT !.wip_factor_QA_capacity = w,
                               !.qa_coverage_factor = c,
                               !.require_release_for_roles = rr,
                               !.lambda_people_penalty = l,
                               !.hours_per_point = h,
                               !.min_hours_to_count_release = th]] :
        p \in PlainRosters, w \in {0, 1}, c \in {1, 2},
        rr \in {{"BE"}, {"BE", "FE", "QA"}}, l \in {0, 1}, h \in {1, 2}, th \in {0, 1}}

BacklogInputs ==
    {[people_rows |-> p, story_rows |-> st, role_rows |-> RoleRows({"BE", "PM"}),
      CFG |-> [PlainCFG EXCEPT !.forbid_points = fp, !.lambda_people_penalty = l,
                               !.bugs_per_sprint = b]] :
        p \in BacklogRosters, st \in Backlogs, fp \in {{}, {MaxPoints}}, l \in {0, 1},
        b \in 0..MaxBugs}

Inputs == RosterInputs \cup ConfigInputs \cup BacklogInputs

\* the state once lines 28-72 have loaded the files
Init ==
    /\ \E in \in Inputs :
          /\ people_rows = in.people_rows
          /\ story_rows = in.story_rows
          /\ role_rows = in.role_rows
          /\ CFG = in.CFG
    /\ I_by_role = LoadedIByRole(people_rows)
    /\ pc = "req"
    /\ err = ""
    /\ req = <<>>
    /\ role_cap_eff = <<>>
    /\ m = {}
    /\ status = ""
    /\ sol = AllNone
    /\ obj = <<>>
    /\ sel = {}
    /\ assign_rows = {}
    /\ util = {}
    /\ summary = <<>>
    /\ out = {}

Spec == Init /\ [][Next]_vars

\* ----------------------------------------------------------------- claims
\* what the claims speak of, stated on the loaded records and the solver's answer
HasPeople(r) == \E i \in I : role_of[i] = r
PeopleOf(r) == {i \in I : role_of[i] = r}
SummedCap(r) == SumSet(cap_i, PeopleOf(r))
BugReservation(r) == CFG.bugs_per_sprint * Get(bug_hours_per_bug, r, 0)
RoleHours(r) == SumSet([k \in PeopleOf(r) \X S |-> sol.x[k]], PeopleOf(r) \X S)
RoleStoryHours(r, s) == SumSet([i \in PeopleOf(r) |-> sol.x[<<i, s>>]], PeopleOf(r))
PersonHours(i) == SumSet([s \in S |-> sol.x[<<i, s>>]], S)
DevOwners(s) == {i \in devs : sol.owner[<<i, s>>] = 1}
Built == pc \in {"solve", "selected", "assign", "util", "summary", "done"}
Solved == status = "Optimal"

\* the effective capacity as the specification defines it
StatedEffCap(r) ==
    IF r = "QA"
    THEN Min(SummedCap(r) - BugReservation(r), SummedCap(r) * CFG.wip_factor_QA_capacity)
    ELSE SummedCap(r) - BugReservation(r)

\* the required hours as the specification defines them
StatedReq(s, r) ==
    points[s] * CFG.hours_per_point * role_share[r]
        * (IF r = "QA" THEN CFG.qa_coverage_factor ELSE 1)
    + (IF r \in {"QA", "TL"} THEN mtg_per_story[r] ELSE 0)

\* C1: a role listed in the role records that has no people gets neither a
\* coverage constraint nor an aggregate capacity constraint, and the build
\* step completes.
C1_EmptyRoleUnconstrained ==
    /\ pc = "crashed" /\ err = "KeyError" =>
          \E r \in FiveRoles : HasPeople(r) /\ r \notin R
    /\ Built =>
          \A r \in R : ~HasPeople(r) =>
              ~\E c \in m : c[1] \in {"Req", "RoleCap"} /\ c[2] = r

\* C2: the utilization view never divides by zero; every person, a person of
\* capacity 0 included, gets a row.
C2_UtilizationNeverDividesByZero ==
    /\ err # "ZeroDivisionError"
    /\ "person_utilization.csv" \in out => \A i \in I : \E row \in util : row[1] = i

\* C3: whatever the solve status, no view raises, and the finished run has
\* written the three views and the summary with the status verbatim.
C3_EveryStatusReported ==
    /\ status # "" => pc # "crashed"
    /\ pc = "done" =>
          /\ summary.Status = status
          /\ out = {"selected_stories.csv", "assignments.csv",
                    "person_utilization.csv", "summary.txt"}

\* C4: in every solution, every configured role that has people logs at most
\* its effective capacity in total.
C4_RoleCapacityAllRoles ==
    Solved => \A r \in R : HasPeople(r) => RoleHours(r) <= StatedEffCap(r)

\* the same bound for the roles of the capacity loop only
RoleCapacityOfTheFiveRoles ==
    Solved => \A r \in R \cap FiveRoles : HasPeople(r) => RoleHours(r) <= StatedEffCap(r)

\* C5: in every solution, every selected story gets from every configured
\* role that has people at least the hours the role requires for it.
C5_CoverageAllRoles ==
    Solved => \A s \in S : \A r \in R :
        (HasPeople(r) /\ sol.z[s] = 1) => RoleStoryHours(r, s) >= StatedReq(s, r)

\* the same coverage for the roles of the coverage loop only
CoverageOfTheFiveRoles ==
    Solved => \A s \in S : \A r \in R \cap FiveRoles :
        (HasPeople(r) /\ sol.z[s] = 1) => RoleStoryHours(r, s) >= StatedReq(s, r)

\* the same rule for the developers the script names (roles BE and FE)
ActiveDevelopersOwn ==
    Solved => \A i \in devs :
        sol.y[i] = 1 => (sol.rel[i] = 1 /\ \E s \in S : sol.owner[<<i, s>>] = 1)

\* C6: in every solution, an active person of a role required to release is
\* released and owns at least one eligible story.
C6_ActiveReleaseRolesOwn ==
    Solved => \A i \in I :
        (role_of[i] \in CFG.require_release_for_roles /\ sol.y[i] = 1) =>
            /\ sol.rel[i] = 1
            /\ i \in devs
            /\ \E s \in S : sol.owner[<<i, s>>] = 1

\* C7: in every solution a selected story has exactly one owner among the
\* developers and an unselected story none; every row of the selection view
\* carries that developer, and without developers nothing is selected.
C7_ExactlyOneOwner ==
    Solved =>
        /\ \A s \in S : Cardinality(DevOwners(s)) = sol.z[s]
        /\ devs = {} => \A s \in S : sol.z[s] = 0
        /\ "selected_stories.csv" \in out =>
              /\ {row[1] : row \in sel} = {s \in S : sol.z[s] = 1}
              /\ \A row \in sel : DevOwners(row[1]) = {row[4]}

C7_Witness ==
    /\ Solved
    /\ "selected_stories.csv" \in out
    /\ sel # {}
    /\ \E s \in S : sol.z[s] = 0

\* C8: in every solution a story is selected only with its eligible
\* predecessor; a dependency on a predecessor that is not eligible puts no
\* constraint in the model.
C8_DependencyPrecedence ==
    /\ Solved => \A d \in deps : d[2] \in S => sol.z[d[1]] <= sol.z[d[2]]
    /\ Built => \A d \in deps : d[2] \notin S => ~\E c \in m : c[1] = "Dep" /\ c[2] = d[1]

\* a story is selected although its predecessor is forbidden
C8_Witness ==
    /\ Solved
    /\ \E d \in deps : d[2] \notin S /\ sol.z[d[1]] = 1

\* an enforced dependency with both stories selected
C8_EnforcedWitness ==
    /\ Solved
    /\ \E d \in deps : d[2] \in S /\ sol.z[d[1]] = 1 /\ sol.z[d[2]] = 1

\* C9: in every solution a person's hours over all eligible stories are at
\* most the person's capacity, and are 0 when the person is not active.
C9_PersonCapacity ==
    Solved => \A i \in I :
        /\ PersonHours(i) <= cap_i[i]
        /\ sol.y[i] = 0 => PersonHours(i) = 0

C9_Witness ==
    /\ Solved
    /\ \E i \in I : sol.y[i] = 1 /\ PersonHours(i) = cap_i[i] /\ cap_i[i] > 0
    /\ \E i \in I : sol.y[i] = 0 /\ cap_i[i] > 0

\* C10: the empty plan satisfies the built constraints exactly when no role
\* with an aggregate capacity constraint has a bug reservation above its
\* summed capacity; the solver answers "Infeasible" in exactly the other case.
C10_EmptyPlanFeasibility ==
    LET over == {c[2] : c \in {d \in m : d[1] = "RoleCap"}}
        short == \E r \in over : BugReservation(r) > SummedCap(r)
    IN  /\ Built => (Satisfies(AllZero) <=> ~short)
        /\ status = "Infeasible" => short
        /\ (Built /\ short) => status \notin {"Optimal"}

\* an infeasible model over a backlog with a dependency and a forbidden story
C10_Witness ==
    /\ status = "Infeasible"
    /\ ~Satisfies(AllZero)
    /\ deps # {}
    /\ S # S_all

====
